---- MODULE Spec2Model ----
(***************************************************************************)
(* Model of pywr-next's Model facade (src/src/model.rs): the node, edge,   *)
(* parameter and recorder registries with their construction operations,   *)
(* and the run loop (run / step / compute_parameters / save_recorders).    *)
(*                                                                         *)
(* Indices are 0-based as in the source; TLA+ sequences are 1-based, so    *)
(* the element a Rust index i refers to is seq[i + 1].                    *)
(***************************************************************************)
EXTENDS Integers, Sequences, FiniteSets, TLC

VARIABLES
    nodes,          \* Model.nodes: Vec<Node>
    edges,          \* Model.edges: Vec<Edge>
    parameters,     \* Model.parameters: Vec<Box<dyn Parameter>>
    recorders,      \* Model.recorders: Vec<Box<dyn Recorder>>
    last,           \* the last construction operation called, its arguments and what it returned
    pc,             \* where Model::run stands ("idle": no run in progress)
    timesteps,      \* run: timestepper.timesteps()
    scenario_indices, \* run: scenarios.scenario_indices()
    current_states, \* run: one NetworkState per scenario
    ts_pos,         \* run: position of the loop over timesteps
    next_states,    \* step: the states pushed so far
    sc_pos,         \* step: position of the loop over scenario_indices
    current_state,  \* step: the state found for the scenario
    pstate,         \* compute_parameters: parameter_state, then step's pstate
    next_state,     \* step: the state solver.solve returned
    rec_pos,        \* save_recorders: position of the loop over recorders
    run_ret,        \* what the last run returned
    trace,          \* every call the current run made to the solver, a parameter or a recorder
    calls,          \* the same calls with their arguments, for the current (timestep, scenario)
    solved,         \* per scenario, the timestep and result of its last successful solve
    recorders_at_start, \* the recorders as they were when the current run started
    scenarios       \* the scenario group collection: the sizes of its groups, in declaration order

modelvars == <<nodes, edges, parameters, recorders, last>>
runvars == <<pc, timesteps, scenario_indices, current_states, ts_pos, next_states, sc_pos,
             current_state, pstate, next_state, rec_pos, run_ret, trace, calls, solved,
             recorders_at_start, scenarios>>
vars == <<modelvars, runvars>>

----------------------------------------------------------------------------
(* Bounds of the exploration *)

MaxNodes == 2
MaxEdges == 1
MaxParameters == 1
MaxRecorders == 1

NodeNames == {"a", "b", "c"}
ParameterNames == {"p", "q"}
RecorderNames == {"r", "s"}
InitialVolumes == {2}

----------------------------------------------------------------------------
(* Values *)

\* Option::None of an Option<ParameterIndex>
None == 0 - 1

Roles == {"Input", "Link", "Output", "Storage"}
FlowRoles == {"Input", "Link", "Output"}
ConstraintKinds == {"MinFlow", "MaxFlow", "MinVolume", "MaxVolume"}

\* Result<_, PywrError> values; a panic is the third outcome of a call
Ok(i) == [tag |-> "Ok", err |-> "", name |-> "", idx |-> i]
Err(e) == [tag |-> "Err", err |-> e, name |-> "", idx |-> None]
ErrNamed(e, n, i) == [tag |-> "Err", err |-> e, name |-> n, idx |-> i]
Panic == [tag |-> "Panic", err |-> "index out of bounds", name |-> "", idx |-> None]

Call(op, name, a, b, kind, ret) ==
    [op |-> op, name |-> name, a |-> a, b |-> b, kind |-> kind, ret |-> ret]

\* A panic unwinds out of the caller: no later operation runs on the model.
\* run borrows the model exclusively: nothing else is called while it runs.
Alive == last.ret.tag # "Panic" /\ pc = "idle"

\* No value returned yet
Pending == [tag |-> "None", err |-> "", name |-> "", idx |-> None]

----------------------------------------------------------------------------
(* State vectors (crate::state) *)

NodeState_new_flow_state == [kind |-> "Flow", volume |-> 0, in_flow |-> 0, out_flow |-> 0]
NodeState_new_storage_state(initial_volume) ==
    [kind |-> "Storage", volume |-> initial_volume, in_flow |-> 0, out_flow |-> 0]
EdgeState_new == [flow |-> 0]

\* NetworkState::new(): no node state, no edge state
NetworkState_new == [node_states |-> <<>>, edge_states |-> <<>>]

----------------------------------------------------------------------------
(* Node (crate::node) *)

Node_new(role, node_index, name, initial_volume) ==
    [index |-> node_index, name |-> name, role |-> role,
     incoming_edges |-> {}, outgoing_edges |-> {},
     min_flow |-> None, max_flow |-> None,
     min_volume |-> None, max_volume |-> None,
     cost |-> None, initial_volume |-> initial_volume]

Node_new_input(node_index, name) == Node_new("Input", node_index, name, 0)
Node_new_link(node_index, name) == Node_new("Link", node_index, name, 0)
Node_new_output(node_index, name) == Node_new("Output", node_index, name, 0)
Node_new_storage(node_index, name, initial_volume) ==
    Node_new("Storage", node_index, name, initial_volume)

\* Node::connect: the role check comes first and nothing is written when it fails
Node_connect(from_node, to_node, edge_index) ==
    IF from_node.role = "Output" \/ to_node.role = "Input"
    THEN [ret |-> Err("InvalidConnectionForRole"),
          edge |-> [index |-> edge_index, from |-> from_node.index, to |-> to_node.index],
          from_node |-> from_node,
          to_node |-> to_node]
    ELSE [ret |-> Ok(edge_index),
          edge |-> [index |-> edge_index, from |-> from_node.index, to |-> to_node.index],
          from_node |-> [from_node EXCEPT !.outgoing_edges = @ \cup {edge_index}],
          to_node |-> [to_node EXCEPT !.incoming_edges = @ \cup {edge_index}]]

\* Node::set_constraint: the kinds a role has no slot for are rejected
Node_set_constraint(node, parameter_idx, constraint) ==
    IF node.role \in FlowRoles
    THEN CASE constraint = "MinFlow" -> [ret |-> Ok(None), node |-> [node EXCEPT !.min_flow = parameter_idx]]
           [] constraint = "MaxFlow" -> [ret |-> Ok(None), node |-> [node EXCEPT !.max_flow = parameter_idx]]
           [] OTHER -> [ret |-> Err("StorageConstraintsUndefined"), node |-> node]
    ELSE CASE constraint = "MinVolume" -> [ret |-> Ok(None), node |-> [node EXCEPT !.min_volume = parameter_idx]]
           [] constraint = "MaxVolume" -> [ret |-> Ok(None), node |-> [node EXCEPT !.max_volume = parameter_idx]]
           [] OTHER -> [ret |-> Err("FlowConstraintsUndefined"), node |-> node]

Node_set_cost(node, parameter_idx) == [node EXCEPT !.cost = parameter_idx]

----------------------------------------------------------------------------
(* Parameter (crate::parameters) *)

AggFuncs == {"Sum", "Product", "Min", "Max", "Mean"}

\* A parameter: its name and what it computes from. values are the constant
\* of a Constant and the per-timestep values of a Vector; children are the
\* parameter indices an Aggregated reads. A "Dyn" parameter is one behind the
\* trait object whose kind the model does not look into.
Parameter_new(name, kind, values, children, func) ==
    [name |-> name, kind |-> kind, values |-> values, children |-> children, func |-> func]

DynParameter_new(name) == Parameter_new(name, "Dyn", <<>>, <<>>, "")
ConstantParameter_new(name, value) == Parameter_new(name, "Constant", <<value>>, <<>>, "")
VectorParameter_new(name, values) == Parameter_new(name, "Vector", values, <<>>, "")
AggregatedParameter_new(name, children, func) ==
    Parameter_new(name, "Aggregated", <<>>, children, func)

----------------------------------------------------------------------------
(* Recorder (crate::recorders) *)

\* A recorder either accumulates its observations into a tensor of shape
\* [timesteps x scenarios] or, as an AssertionRecorder, only compares them with
\* what it expects. saved is the set of the cells <<timestep, scenario>> of the
\* tensor that hold an observation.
Recorder_new(name, accumulates) == [name |-> name, accumulates |-> accumulates, saved |-> {}]

\* Recorder::save: an accumulating recorder writes the observation to the cell
\* of the timestep and the scenario; a save that fails writes nothing
Recorder_save(recorder, timestep, scenario_index, ok) ==
    IF ok /\ recorder.accumulates
    THEN [recorder EXCEPT !.saved = @ \cup {<<timestep.index, scenario_index.index>>}]
    ELSE recorder

----------------------------------------------------------------------------
(* Lookups by name *)

\* Iterator::position: the 0-based position of the first element with the name
Position(seq, name) ==
    IF \E i \in 1..Len(seq) : seq[i].name = name
    THEN (CHOOSE i \in 1..Len(seq) :
            /\ seq[i].name = name
            /\ \A j \in 1..(i - 1) : seq[j].name # name) - 1
    ELSE None

get_node_index(ns, name) ==
    IF Position(ns, name) # None
    THEN Ok(ns[Position(ns, name) + 1].index)
    ELSE Err("NodeIndexNotFound")

get_parameter_index(ps, name) ==
    IF Position(ps, name) # None
    THEN Ok(Position(ps, name))
    ELSE Err("ParameterIndexNotFound")

get_recorder_index(rs, name) ==
    IF Position(rs, name) # None
    THEN Ok(Position(rs, name))
    ELSE Err("RecorderIndexNotFound")

----------------------------------------------------------------------------
(* Construction operations, as functions of the registries they work on.   *)
(* Each yields the returned value and the registries after the call.       *)

add_input_node(ns, name) ==
    LET found == get_node_index(ns, name) IN
    IF found.tag = "Ok"
    THEN [ret |-> ErrNamed("NodeNameAlreadyExists", name, found.idx), nodes |-> ns]
    ELSE [ret |-> Ok(Len(ns)), nodes |-> Append(ns, Node_new_input(Len(ns), name))]

\* add_link_node putting the new node in front of the others
add_link_node_front(ns, name) ==
    LET found == get_node_index(ns, name) IN
    IF found.tag = "Ok"
    THEN [ret |-> ErrNamed("NodeNameAlreadyExists", name, found.idx), nodes |-> ns]
    ELSE [ret |-> Ok(0), nodes |-> <<Node_new_link(0, name)>> \o ns]

add_link_node(ns, name) ==
    LET found == get_node_index(ns, name) IN
    IF found.tag = "Ok"
    THEN [ret |-> ErrNamed("NodeNameAlreadyExists", name, found.idx), nodes |-> ns]
    ELSE [ret |-> Ok(Len(ns)), nodes |-> Append(ns, Node_new_link(Len(ns), name))]

\* add_output_node without its name check
add_output_node_unchecked(ns, name) ==
    [ret |-> Ok(Len(ns)), nodes |-> Append(ns, Node_new_output(Len(ns), name))]

add_output_node(ns, name) ==
    LET found == get_node_index(ns, name) IN
    IF found.tag = "Ok"
    THEN [ret |-> ErrNamed("NodeNameAlreadyExists", name, found.idx), nodes |-> ns]
    ELSE [ret |-> Ok(Len(ns)), nodes |-> Append(ns, Node_new_output(Len(ns), name))]

add_storage_node(ns, name, initial_volume) ==
    LET found == get_node_index(ns, name) IN
    IF found.tag = "Ok"
    THEN [ret |-> ErrNamed("NodeNameAlreadyExists", name, found.idx), nodes |-> ns]
    ELSE [ret |-> Ok(Len(ns)),
          nodes |-> Append(ns, Node_new_storage(Len(ns), name, initial_volume))]

add_parameter(ps, parameter) ==
    LET found == get_parameter_index(ps, parameter.name) IN
    IF found.tag = "Ok"
    THEN [ret |-> ErrNamed("ParameterNameAlreadyExists", parameter.name, found.idx),
          parameters |-> ps]
    ELSE [ret |-> Ok(Len(ps)), parameters |-> Append(ps, parameter)]

add_recorder(rs, recorder) ==
    LET found == get_recorder_index(rs, recorder.name) IN
    IF found.tag = "Ok"
    THEN [ret |-> ErrNamed("RecorderNameAlreadyExists", recorder.name, found.idx),
          recorders |-> rs]
    ELSE [ret |-> Ok(Len(rs)), recorders |-> Append(rs, recorder)]

\* set_node_constraint writing the node before it validates the parameter index
set_node_constraint_write_first(ns, ps, node_idx, parameter_idx, constraint) ==
    IF node_idx < Len(ns)
    THEN LET set == Node_set_constraint(ns[node_idx + 1], parameter_idx, constraint) IN
         IF parameter_idx # None /\ parameter_idx >= Len(ps)
         THEN [ret |-> Err("ParameterIndexNotFound"),
               nodes |-> [ns EXCEPT ![node_idx + 1] = set.node]]
         ELSE [ret |-> set.ret, nodes |-> [ns EXCEPT ![node_idx + 1] = set.node]]
    ELSE IF parameter_idx # None /\ parameter_idx >= Len(ps)
         THEN [ret |-> Err("ParameterIndexNotFound"), nodes |-> ns]
         ELSE [ret |-> Err("NodeIndexNotFound"), nodes |-> ns]

\* set_node_constraint dropping the Result of Node::set_constraint (no `?`)
set_node_constraint_result_dropped(ns, ps, node_idx, parameter_idx, constraint) ==
    IF parameter_idx # None /\ parameter_idx >= Len(ps)
    THEN [ret |-> Err("ParameterIndexNotFound"), nodes |-> ns]
    ELSE IF node_idx < Len(ns)
         THEN LET set == Node_set_constraint(ns[node_idx + 1], parameter_idx, constraint) IN
              [ret |-> Ok(None), nodes |-> [ns EXCEPT ![node_idx + 1] = set.node]]
         ELSE [ret |-> Err("NodeIndexNotFound"), nodes |-> ns]

set_node_constraint(ns, ps, node_idx, parameter_idx, constraint) ==
    IF parameter_idx # None /\ parameter_idx >= Len(ps)
    THEN [ret |-> Err("ParameterIndexNotFound"), nodes |-> ns]
    ELSE IF node_idx < Len(ns)
         THEN LET set == Node_set_constraint(ns[node_idx + 1], parameter_idx, constraint) IN
              [ret |-> set.ret, nodes |-> [ns EXCEPT ![node_idx + 1] = set.node]]
         ELSE [ret |-> Err("NodeIndexNotFound"), nodes |-> ns]

\* set_node_cost without the check of the parameter index
set_node_cost_unchecked(ns, ps, node_idx, parameter_idx) ==
    IF node_idx < Len(ns)
    THEN [ret |-> Ok(None),
          nodes |-> [ns EXCEPT ![node_idx + 1] = Node_set_cost(@, parameter_idx)]]
    ELSE [ret |-> Err("NodeIndexNotFound"), nodes |-> ns]

set_node_cost(ns, ps, node_idx, parameter_idx) ==
    IF parameter_idx # None /\ parameter_idx >= Len(ps)
    THEN [ret |-> Err("ParameterIndexNotFound"), nodes |-> ns]
    ELSE IF node_idx < Len(ns)
         THEN [ret |-> Ok(None),
               nodes |-> [ns EXCEPT ![node_idx + 1] = Node_set_cost(@, parameter_idx)]]
         ELSE [ret |-> Err("NodeIndexNotFound"), nodes |-> ns]

\* slice::split_at_mut(mid), called with mid <= len
split_at_mut(ns, mid) ==
    [left |-> SubSeq(ns, 1, mid), right |-> SubSeq(ns, mid + 1, Len(ns))]

\* connect_borrowed numbering the new edge from one instead of Len(edges)
connect_borrowed_next_index(ns, es, from_pos, to_pos) ==
    LET edge_index == Len(es) + 1
        c == Node_connect(ns[from_pos + 1], ns[to_pos + 1], edge_index)
        written == [ns EXCEPT ![from_pos + 1] = c.from_node, ![to_pos + 1] = c.to_node]
    IN  IF c.ret.tag = "Ok"
        THEN [ret |-> Ok(edge_index), nodes |-> written, edges |-> Append(es, c.edge)]
        ELSE [ret |-> c.ret, nodes |-> written, edges |-> es]

\* Lines 345-350: the two nodes are borrowed mutably, so what Node::connect
\* wrote to them stays written whatever it returns; the edge is pushed on Ok.
connect_borrowed(ns, es, from_pos, to_pos) ==
    LET edge_index == Len(es)
        c == Node_connect(ns[from_pos + 1], ns[to_pos + 1], edge_index)
        written == [ns EXCEPT ![from_pos + 1] = c.from_node, ![to_pos + 1] = c.to_node]
    IN  IF c.ret.tag = "Ok"
        THEN [ret |-> Ok(edge_index), nodes |-> written, edges |-> Append(es, c.edge)]
        ELSE [ret |-> c.ret, nodes |-> written, edges |-> es]

\* connect_nodes validating both indices before it looks at their order
connect_nodes_range_first(ns, es, from_node_index, to_node_index) ==
    IF from_node_index >= Len(ns) \/ to_node_index >= Len(ns)
    THEN [ret |-> Err("NodeIndexNotFound"), nodes |-> ns, edges |-> es]
    ELSE IF from_node_index = to_node_index
         THEN [ret |-> Err("InvalidNodeConnection"), nodes |-> ns, edges |-> es]
         ELSE connect_borrowed(ns, es, from_node_index, to_node_index)

\* connect_nodes with the tuple of the Greater arm in the order of the Less arm
connect_nodes_greater_swapped(ns, es, from_node_index, to_node_index) ==
    IF from_node_index < to_node_index
    THEN IF to_node_index > Len(ns)
         THEN [ret |-> Err("NodeIndexNotFound"), nodes |-> ns, edges |-> es]
         ELSE LET sp == split_at_mut(ns, to_node_index) IN
              IF from_node_index < Len(sp.left) /\ 0 < Len(sp.right)
              THEN connect_borrowed(ns, es, from_node_index, Len(sp.left) + 0)
              ELSE [ret |-> Panic, nodes |-> ns, edges |-> es]
    ELSE IF from_node_index = to_node_index
    THEN [ret |-> Err("InvalidNodeConnection"), nodes |-> ns, edges |-> es]
    ELSE IF from_node_index > Len(ns)
         THEN [ret |-> Err("NodeIndexNotFound"), nodes |-> ns, edges |-> es]
         ELSE LET sp == split_at_mut(ns, from_node_index) IN
              IF 0 < Len(sp.right) /\ to_node_index < Len(sp.left)
              THEN connect_borrowed(ns, es, to_node_index, Len(sp.left) + 0)
              ELSE [ret |-> Panic, nodes |-> ns, edges |-> es]

connect_nodes(ns, es, from_node_index, to_node_index) ==
    IF from_node_index < to_node_index
    THEN IF to_node_index > Len(ns)
         THEN [ret |-> Err("NodeIndexNotFound"), nodes |-> ns, edges |-> es]
         ELSE LET sp == split_at_mut(ns, to_node_index) IN
              \* left[from_node_index] and right[0] are bounds-checked
              IF from_node_index < Len(sp.left) /\ 0 < Len(sp.right)
              THEN connect_borrowed(ns, es, from_node_index, Len(sp.left) + 0)
              ELSE [ret |-> Panic, nodes |-> ns, edges |-> es]
    ELSE IF from_node_index = to_node_index
    THEN [ret |-> Err("InvalidNodeConnection"), nodes |-> ns, edges |-> es]
    ELSE IF from_node_index > Len(ns)
         THEN [ret |-> Err("NodeIndexNotFound"), nodes |-> ns, edges |-> es]
         ELSE LET sp == split_at_mut(ns, from_node_index) IN
              \* right[0] and left[to_node_index] are bounds-checked
              IF 0 < Len(sp.right) /\ to_node_index < Len(sp.left)
              THEN connect_borrowed(ns, es, Len(sp.left) + 0, to_node_index)
              ELSE [ret |-> Panic, nodes |-> ns, edges |-> es]

----------------------------------------------------------------------------
(* The construction phase: one action per public operation *)

\* Arguments tried: every index in range and the first ones out of range;
\* no parameter, the first parameter, and the first index out of range
NodeIndices == 0..MaxNodes
ParameterArgs == {None, 0, Len(parameters)}

\* No run was started
NoRun ==
    /\ pc = "idle"
    /\ timesteps = <<>>
    /\ scenario_indices = <<>>
    /\ current_states = <<>>
    /\ ts_pos = 0
    /\ next_states = <<>>
    /\ sc_pos = 0
    /\ current_state = NetworkState_new
    /\ pstate = <<>>
    /\ next_state = NetworkState_new
    /\ rec_pos = 0
    /\ run_ret = Pending
    /\ trace = <<>>
    /\ calls = <<>>
    /\ solved = <<>>
    /\ recorders_at_start = <<>>
    /\ scenarios = <<>>

Init ==
    /\ nodes = <<>>
    /\ edges = <<>>
    /\ parameters = <<>>
    /\ recorders = <<>>
    /\ last = Call("new", "", None, None, "", Ok(None))
    /\ NoRun

Call_add_input_node(name) ==
    LET r == add_input_node(nodes, name) IN
    /\ Alive
    /\ r.ret.tag = "Ok" => Len(nodes) < MaxNodes
    /\ nodes' = r.nodes
    /\ last' = Call("add_input_node", name, None, None, "", r.ret)
    /\ UNCHANGED <<edges, parameters, recorders>>
    /\ UNCHANGED runvars

Call_add_link_node(name) ==
    LET r == add_link_node(nodes, name) IN
    /\ Alive
    /\ r.ret.tag = "Ok" => Len(nodes) < MaxNodes
    /\ nodes' = r.nodes
    /\ last' = Call("add_link_node", name, None, None, "", r.ret)
    /\ UNCHANGED <<edges, parameters, recorders>>
    /\ UNCHANGED runvars

Call_add_output_node(name) ==
    LET r == add_output_node(nodes, name) IN
    /\ Alive
    /\ r.ret.tag = "Ok" => Len(nodes) < MaxNodes
    /\ nodes' = r.nodes
    /\ last' = Call("add_output_node", name, None, None, "", r.ret)
    /\ UNCHANGED <<edges, parameters, recorders>>
    /\ UNCHANGED runvars

Call_add_storage_node(name, initial_volume) ==
    LET r == add_storage_node(nodes, name, initial_volume) IN
    /\ Alive
    /\ r.ret.tag = "Ok" => Len(nodes) < MaxNodes
    /\ nodes' = r.nodes
    /\ last' = Call("add_storage_node", name, initial_volume, None, "", r.ret)
    /\ UNCHANGED <<edges, parameters, recorders>>
    /\ UNCHANGED runvars

Call_add_parameter(parameter) ==
    LET r == add_parameter(parameters, parameter) IN
    /\ Alive
    /\ r.ret.tag = "Ok" => Len(parameters) < MaxParameters
    /\ parameters' = r.parameters
    /\ last' = Call("add_parameter", parameter.name, None, None, parameter.kind, r.ret)
    /\ UNCHANGED <<nodes, edges, recorders>>
    /\ UNCHANGED runvars

Call_add_recorder(name) ==
    LET r == add_recorder(recorders, Recorder_new(name, TRUE)) IN
    /\ Alive
    /\ r.ret.tag = "Ok" => Len(recorders) < MaxRecorders
    /\ recorders' = r.recorders
    /\ last' = Call("add_recorder", name, None, None, "", r.ret)
    /\ UNCHANGED <<nodes, edges, parameters>>
    /\ UNCHANGED runvars

Call_set_node_constraint(node_idx, parameter_idx, constraint) ==
    LET r == set_node_constraint(nodes, parameters, node_idx, parameter_idx, constraint) IN
    /\ Alive
    /\ nodes' = r.nodes
    /\ last' = Call("set_node_constraint", "", node_idx, parameter_idx, constraint, r.ret)
    /\ UNCHANGED <<edges, parameters, recorders>>
    /\ UNCHANGED runvars

Call_set_node_cost(node_idx, parameter_idx) ==
    LET r == set_node_cost(nodes, parameters, node_idx, parameter_idx) IN
    /\ Alive
    /\ nodes' = r.nodes
    /\ last' = Call("set_node_cost", "", node_idx, parameter_idx, "", r.ret)
    /\ UNCHANGED <<edges, parameters, recorders>>
    /\ UNCHANGED runvars

Call_connect_nodes(from_node_index, to_node_index) ==
    LET r == connect_nodes(nodes, edges, from_node_index, to_node_index) IN
    /\ Alive
    /\ r.ret.tag = "Ok" => Len(edges) < MaxEdges
    /\ nodes' = r.nodes
    /\ edges' = r.edges
    /\ last' = Call("connect_nodes", "", from_node_index, to_node_index, "", r.ret)
    /\ UNCHANGED <<parameters, recorders>>
    /\ UNCHANGED runvars

\* Building the network: nodes and the edges between them
Next ==
    \/ \E name \in NodeNames : Call_add_input_node(name)
    \/ \E name \in NodeNames : Call_add_link_node(name)
    \/ \E name \in NodeNames : Call_add_output_node(name)
    \/ \E name \in NodeNames, v \in InitialVolumes : Call_add_storage_node(name, v)
    \/ \E f \in NodeIndices, t \in NodeIndices : Call_connect_nodes(f, t)

Spec == Init /\ [][Next]_vars

----------------------------------------------------------------------------
(* Filling the three registries *)

NextRegistry ==
    \/ \E name \in NodeNames : Call_add_input_node(name)
    \/ \E name \in NodeNames : Call_add_link_node(name)
    \/ \E name \in NodeNames : Call_add_output_node(name)
    \/ \E name \in NodeNames, v \in InitialVolumes : Call_add_storage_node(name, v)
    \/ \E name \in ParameterNames : Call_add_parameter(DynParameter_new(name))
    \/ \E name \in RecorderNames : Call_add_recorder(name)

SpecRegistry == Init /\ [][NextRegistry]_vars

----------------------------------------------------------------------------
(* Filling the parameter registry with parameters that read other parameters *)

\* The indices an Aggregated parameter is given to read: one or two of them,
\* registered or not
ChildrenArgs ==
    {<<i>> : i \in 0..MaxParameters} \cup {<<i, j>> : i \in 0..MaxParameters, j \in 0..MaxParameters}

NextParameters ==
    \/ \E name \in ParameterNames : Call_add_parameter(ConstantParameter_new(name, 1))
    \/ \E name \in ParameterNames, children \in ChildrenArgs, func \in AggFuncs :
          Call_add_parameter(AggregatedParameter_new(name, children, func))

SpecParameters == Init /\ [][NextParameters]_vars

----------------------------------------------------------------------------
(* Binding parameters to the nodes of a network of two nodes *)

add_node(ns, role, name) ==
    CASE role = "Input" -> add_input_node(ns, name).nodes
      [] role = "Link" -> add_link_node(ns, name).nodes
      [] role = "Output" -> add_output_node(ns, name).nodes
      [] role = "Storage" -> add_storage_node(ns, name, 2).nodes

\* The role pairs of the networks the bindings are explored on
BoundNetworks == {<<"Input", "Storage">>, <<"Output", "Link">>}

InitBound ==
    /\ \E roles \in BoundNetworks :
          nodes = add_node(add_node(<<>>, roles[1], "a"), roles[2], "b")
    /\ edges = <<>>
    /\ parameters = <<>>
    /\ recorders = <<>>
    /\ last = Call("new", "", None, None, "", Ok(None))
    /\ NoRun

NextBound ==
    \/ \E name \in ParameterNames : Call_add_parameter(DynParameter_new(name))
    \/ \E f \in 0..Len(nodes), t \in 0..Len(nodes) : Call_connect_nodes(f, t)
    \/ \E n \in 0..Len(nodes), p \in ParameterArgs, c \in ConstraintKinds :
          Call_set_node_constraint(n, p, c)
    \/ \E n \in 0..Len(nodes), p \in ParameterArgs : Call_set_node_cost(n, p)

SpecBound == InitBound /\ [][NextBound]_vars

----------------------------------------------------------------------------
(* Properties of the construction operations *)

AddNodeOps == {"add_input_node", "add_link_node", "add_output_node", "add_storage_node"}
VolumeKinds == {"MinVolume", "MaxVolume"}
FlowKinds == {"MinFlow", "MaxFlow"}

NamesDistinct(seq) ==
    \A i \in 1..Len(seq), j \in 1..Len(seq) : i # j => seq[i].name # seq[j].name

\* C1: connect_nodes(from, to) with from # to and at least one of the two
\* indices out of range (>= the number of nodes, the number itself included)
\* returns the error NodeIndexNotFound, in both argument orders.
C1_OutOfRangeIsNodeIndexNotFound ==
    (/\ last.op = "connect_nodes"
     /\ last.a # last.b
     /\ (last.a >= Len(nodes) \/ last.b >= Len(nodes)))
    => last.ret = Err("NodeIndexNotFound")

\* C2: adding a node, a parameter or a recorder under a name its registry
\* already holds fails with *NameAlreadyExists(name, position of the holder)
\* and leaves the registry as it was; the names of a registry stay distinct.
C2_DuplicateNameRejected ==
    [][/\ \A i \in 1..Len(nodes) :
            (last'.op \in AddNodeOps /\ last'.name = nodes[i].name)
            => (/\ last'.ret = ErrNamed("NodeNameAlreadyExists", nodes[i].name, i - 1)
                /\ nodes' = nodes)
       /\ \A i \in 1..Len(parameters) :
            (last'.op = "add_parameter" /\ last'.name = parameters[i].name)
            => (/\ last'.ret = ErrNamed("ParameterNameAlreadyExists", parameters[i].name, i - 1)
                /\ parameters' = parameters)
       /\ \A i \in 1..Len(recorders) :
            (last'.op = "add_recorder" /\ last'.name = recorders[i].name)
            => (/\ last'.ret = ErrNamed("RecorderNameAlreadyExists", recorders[i].name, i - 1)
                /\ recorders' = recorders)
       /\ NamesDistinct(nodes')
       /\ NamesDistinct(parameters')
       /\ NamesDistinct(recorders')]_vars

C2_Witness ==
    /\ last.op = "add_storage_node"
    /\ last.ret.err = "NodeNameAlreadyExists"
    /\ last.ret.idx = 1
    /\ Len(nodes) = 2
    /\ Len(parameters) = 1
    /\ Len(recorders) = 1

\* C3: connect_nodes(i, i) fails with InvalidNodeConnection for every i,
\* an existing node or not, and adds no edge.
C3_SelfConnectionRejected ==
    [][(last'.op = "connect_nodes" /\ last'.a = last'.b)
       => (/\ last'.ret = Err("InvalidNodeConnection")
           /\ edges' = edges
           /\ nodes' = nodes)]_vars

C3_Witness ==
    /\ last.op = "connect_nodes"
    /\ last.a = last.b
    /\ last.a >= Len(nodes)
    /\ Len(nodes) > 0
    /\ last.ret.err = "InvalidNodeConnection"

EdgesRecorded(ns, es) ==
    /\ \A e \in 1..Len(es) :
          /\ es[e].from # es[e].to
          /\ es[e].from < Len(ns)
          /\ es[e].to < Len(ns)
          /\ (e - 1) \in ns[es[e].from + 1].outgoing_edges
          /\ (e - 1) \in ns[es[e].to + 1].incoming_edges
    /\ \A n \in 1..Len(ns) :
          (ns[n].incoming_edges \cup ns[n].outgoing_edges) \subseteq 0..(Len(es) - 1)

C5_ErrorLeavesModelUnchanged ==
    [][(/\ last'.op \in {"connect_nodes", "set_node_constraint", "set_node_cost"}
        /\ last'.ret.tag = "Err")
       => (nodes' = nodes /\ edges' = edges /\ parameters' = parameters)]_vars

C5_Witness ==
    /\ last.op = "connect_nodes"
    /\ last.ret.err = "InvalidConnectionForRole"
    /\ \E n \in 1..Len(nodes) : nodes[n].cost # None
    /\ \A n \in 1..Len(nodes) : nodes[n].incoming_edges \cup nodes[n].outgoing_edges = {}

\* C6: every Input node has no incoming edge and every Output node no outgoing
\* edge; a connect_nodes call with an Output as from or an Input as to adds no
\* edge.
C6_RolesRespected ==
    [][/\ \A n \in 1..Len(nodes') :
            /\ nodes'[n].role = "Input" => nodes'[n].incoming_edges = {}
            /\ nodes'[n].role = "Output" => nodes'[n].outgoing_edges = {}
       /\ (/\ last'.op = "connect_nodes"
           /\ last'.a < Len(nodes)
           /\ last'.b < Len(nodes)
           /\ (nodes[last'.a + 1].role = "Output" \/ nodes[last'.b + 1].role = "Input"))
          => (last'.ret.tag # "Ok" /\ edges' = edges /\ nodes' = nodes)]_vars

C6_Witness ==
    /\ last.op = "connect_nodes"
    /\ last.ret.err = "InvalidConnectionForRole"
    /\ nodes[last.a + 1].role = "Output"
    /\ Len(edges) = 1

\* C7 as stated: set_node_constraint with MinVolume or MaxVolume on an Input,
\* Link or Output node fails with StorageConstraintsUndefined, and with MinFlow
\* or MaxFlow on a Storage node with FlowConstraintsUndefined; the node's
\* constraints are unchanged.
C7_IllegalKindRejected_AnyParameter ==
    [][(last'.op = "set_node_constraint" /\ last'.a < Len(nodes))
       => (/\ (nodes[last'.a + 1].role \in FlowRoles /\ last'.kind \in VolumeKinds)
              => (last'.ret = Err("StorageConstraintsUndefined") /\ nodes' = nodes)
           /\ (nodes[last'.a + 1].role = "Storage" /\ last'.kind \in FlowKinds)
              => (last'.ret = Err("FlowConstraintsUndefined") /\ nodes' = nodes))]_vars

\* C7 amended: the same, for a call whose parameter argument is absent or the
\* index of a registered parameter (an unregistered index is answered with
\* ParameterIndexNotFound before the node is looked at).
C7_IllegalKindRejected ==
    [][(/\ last'.op = "set_node_constraint"
        /\ last'.a < Len(nodes)
        /\ (last'.b = None \/ last'.b < Len(parameters)))
       => (/\ (nodes[last'.a + 1].role \in FlowRoles /\ last'.kind \in VolumeKinds)
              => (last'.ret = Err("StorageConstraintsUndefined") /\ nodes' = nodes)
           /\ (nodes[last'.a + 1].role = "Storage" /\ last'.kind \in FlowKinds)
              => (last'.ret = Err("FlowConstraintsUndefined") /\ nodes' = nodes))]_vars

C7_Witness ==
    /\ last.op = "set_node_constraint"
    /\ last.ret.err = "StorageConstraintsUndefined"
    /\ last.b = 0
    /\ nodes[last.a + 1].role = "Input"
    /\ nodes[last.a + 1].max_flow = 0

----------------------------------------------------------------------------
(* Model::run: the collaborators it calls *)

MaxTimesteps == 2
MaxScenarios == 2

\* What a parameter can produce and what the solver can decide
ParameterValues == {1, 2}
SolverLevels == {0, 1}

\* Timestepper::timesteps(): a finite sequence, index from 0
Timestepper_timesteps(n) == [i \in 1..n |-> [index |-> i - 1, duration |-> 1]]

RECURSIVE Product(_)
Product(sizes) == IF sizes = <<>> THEN 1 ELSE Head(sizes) * Product(Tail(sizes))

\* scenario_indices with the first group varying fastest
ScenarioGroupCollection_scenario_indices_first_fastest(sizes) ==
    [i \in 1..Product(sizes) |->
        [index |-> i - 1,
         indices |-> [g \in 1..Len(sizes) |->
                        ((i - 1) \div Product(SubSeq(sizes, 1, g - 1))) % sizes[g]]]]

\* ScenarioGroupCollection::scenario_indices(): the Cartesian product of the
\* groups, the last group varying fastest; index is the position
ScenarioGroupCollection_scenario_indices(sizes) ==
    [i \in 1..Product(sizes) |->
        [index |-> i - 1,
         indices |-> [g \in 1..Len(sizes) |->
                        ((i - 1) \div Product(SubSeq(sizes, g + 1, Len(sizes)))) % sizes[g]]]]

\* ScenarioGroupCollection::add_group: the group is declared after the others
ScenarioGroupCollection_add_group(groups, size) == Append(groups, size)

\* Solver::solve: a state of the same shape, the flows and volumes its own
Solver_solve(state, level) ==
    [node_states |-> [n \in 1..Len(state.node_states) |->
                        [kind |-> state.node_states[n].kind,
                         volume |-> IF state.node_states[n].kind = "Storage" THEN level ELSE 0,
                         in_flow |-> level,
                         out_flow |-> level]],
     edge_states |-> [e \in 1..Len(state.edge_states) |-> [flow |-> level]]]

----------------------------------------------------------------------------
(* The built-in parameters and the LP solver. An f64 is held in tenths: the  *)
(* integer v stands for v / Unit.                                            *)

Unit == 10

RECURSIVE SumSeq(_)
SumSeq(vs) == IF vs = <<>> THEN 0 ELSE Head(vs) + SumSeq(Tail(vs))

RECURSIVE ProductSeq(_)
ProductSeq(vs) ==
    IF vs = <<>> THEN Unit ELSE (Head(vs) * ProductSeq(Tail(vs))) \div Unit

RECURSIVE MinSeq(_)
MinSeq(vs) ==
    IF Len(vs) = 1 THEN vs[1]
    ELSE LET m == MinSeq(Tail(vs)) IN IF Head(vs) < m THEN Head(vs) ELSE m

RECURSIVE MaxSeq(_)
MaxSeq(vs) ==
    IF Len(vs) = 1 THEN vs[1]
    ELSE LET m == MaxSeq(Tail(vs)) IN IF Head(vs) > m THEN Head(vs) ELSE m

\* AggFunc applied to the values of the children
AggFunc_calc(func, vs) ==
    CASE func = "Sum" -> SumSeq(vs)
      [] func = "Product" -> ProductSeq(vs)
      [] func = "Min" -> MinSeq(vs)
      [] func = "Max" -> MaxSeq(vs)
      [] func = "Mean" -> SumSeq(vs) \div Len(vs)

\* Parameter::compute of the built-in kinds: a Constant yields its value, a
\* Vector the value at the timestep's index, an Aggregated its function of
\* the prior values at its children's indices
Parameter_compute(parameter, timestep, parameter_state) ==
    CASE parameter.kind = "Constant" ->
            [ok |-> TRUE, value |-> parameter.values[1]]
      [] parameter.kind = "Vector" ->
            IF timestep.index < Len(parameter.values)
            THEN [ok |-> TRUE, value |-> parameter.values[timestep.index + 1]]
            ELSE [ok |-> FALSE, value |-> None]
      [] parameter.kind = "Aggregated" ->
            IF \A c \in 1..Len(parameter.children) : parameter.children[c] < Len(parameter_state)
            THEN [ok |-> TRUE,
                  value |-> AggFunc_calc(parameter.func,
                               [c \in 1..Len(parameter.children) |->
                                   parameter_state[parameter.children[c] + 1]])]
            ELSE [ok |-> FALSE, value |-> None]
      [] OTHER -> [ok |-> FALSE, value |-> None]

\* The flow a set of edges carries; x[e + 1] is the flow on edge e
RECURSIVE EdgeFlowSum(_, _)
EdgeFlowSum(x, edge_set) ==
    IF edge_set = {} THEN 0
    ELSE LET e == CHOOSE e \in edge_set : TRUE
         IN  x[e + 1] + EdgeFlowSum(x, edge_set \ {e})

\* Bounds with nothing below when no parameter is bound
WithinBounds_unbounded_below(v, lower_idx, upper_idx, parameter_state) ==
    /\ lower_idx = None \/ v >= parameter_state[lower_idx + 1]
    /\ upper_idx = None \/ v <= parameter_state[upper_idx + 1]

\* lower <= v <= upper, a bound being the value of the parameter bound to the
\* slot; no parameter: 0 below, nothing above
WithinBounds(v, lower_idx, upper_idx, parameter_state) ==
    /\ v >= (IF lower_idx = None THEN 0 ELSE parameter_state[lower_idx + 1])
    /\ upper_idx = None \/ v <= parameter_state[upper_idx + 1]

\* The constraints without the conservation of flow at the Link nodes
LP_Feasible_links_free(ns, x, timestep, state, parameter_state) ==
    \A n \in 1..Len(ns) :
        LET in_flow == EdgeFlowSum(x, ns[n].incoming_edges)
            out_flow == EdgeFlowSum(x, ns[n].outgoing_edges)
        IN  CASE ns[n].role = "Link" -> TRUE
              [] ns[n].role = "Input" ->
                    WithinBounds(out_flow, ns[n].min_flow, ns[n].max_flow, parameter_state)
              [] ns[n].role = "Output" ->
                    WithinBounds(in_flow, ns[n].min_flow, ns[n].max_flow, parameter_state)
              [] ns[n].role = "Storage" ->
                    WithinBounds(state.node_states[n].volume
                                    + (in_flow - out_flow) * timestep.duration,
                                 ns[n].min_volume, ns[n].max_volume, parameter_state)

\* The constraints of the LP for one timestep and one scenario
LP_Feasible(ns, x, timestep, state, parameter_state) ==
    \A n \in 1..Len(ns) :
        LET in_flow == EdgeFlowSum(x, ns[n].incoming_edges)
            out_flow == EdgeFlowSum(x, ns[n].outgoing_edges)
        IN  CASE ns[n].role = "Link" -> in_flow = out_flow
              [] ns[n].role = "Input" ->
                    WithinBounds(out_flow, ns[n].min_flow, ns[n].max_flow, parameter_state)
              [] ns[n].role = "Output" ->
                    WithinBounds(in_flow, ns[n].min_flow, ns[n].max_flow, parameter_state)
              [] ns[n].role = "Storage" ->
                    WithinBounds(state.node_states[n].volume
                                    + (in_flow - out_flow) * timestep.duration,
                                 ns[n].min_volume, ns[n].max_volume, parameter_state)

\* The objective: the cost of each node times the flow through it
RECURSIVE LP_Objective(_, _, _, _)
LP_Objective(ns, x, parameter_state, n) ==
    IF n = 0 THEN 0
    ELSE LET cost == IF ns[n].cost = None THEN 0 ELSE parameter_state[ns[n].cost + 1]
             flow == IF ns[n].role = "Output"
                     THEN EdgeFlowSum(x, ns[n].incoming_edges)
                     ELSE EdgeFlowSum(x, ns[n].outgoing_edges)
         IN  cost * flow + LP_Objective(ns, x, parameter_state, n - 1)

\* The state decoded from the flows x
LP_Decode(ns, es, x, timestep, state) ==
    [node_states |-> [n \in 1..Len(ns) |->
        LET in_flow == EdgeFlowSum(x, ns[n].incoming_edges)
            out_flow == EdgeFlowSum(x, ns[n].outgoing_edges)
        IN  [kind |-> state.node_states[n].kind,
             volume |-> IF ns[n].role = "Storage"
                        THEN state.node_states[n].volume
                                + (in_flow - out_flow) * timestep.duration
                        ELSE 0,
             in_flow |-> in_flow,
             out_flow |-> out_flow]],
     edge_states |-> [e \in 1..Len(es) |-> [flow |-> x[e]]]]

\* No edge needs to carry more than the largest bound or volume there is
LP_FlowCap(ns, state, parameter_state) ==
    LET slots == UNION {{ns[n].min_flow, ns[n].max_flow, ns[n].min_volume, ns[n].max_volume} :
                           n \in 1..Len(ns)} \ {None}
        vs == {parameter_state[i + 1] : i \in slots}
                \cup {state.node_states[n].volume : n \in 1..Len(state.node_states)}
                \cup {0}
    IN  CHOOSE m \in vs : \A v \in vs : v <= m

\* ClpSolver::solve: every outcome the solver may return, the states decoded
\* from the optimal flows, or the failure of an infeasible instance
ClpSolver_solve(ns, es, timestep, state, parameter_state) ==
    LET feasible == {x \in [1..Len(es) -> 0..LP_FlowCap(ns, state, parameter_state)] :
                        LP_Feasible(ns, x, timestep, state, parameter_state)}
        optima == {x \in feasible :
                     \A y \in feasible :
                        LP_Objective(ns, x, parameter_state, Len(ns))
                           <= LP_Objective(ns, y, parameter_state, Len(ns))}
    IN  IF feasible = {}
        THEN {[ok |-> FALSE, state |-> NetworkState_new]}
        ELSE {[ok |-> TRUE, state |-> LP_Decode(ns, es, x, timestep, state)] : x \in optima}

\* One entry of trace / calls
Traced(fn, t, s, k, ret) == [fn |-> fn, t |-> t, s |-> s, k |-> k, ret |-> ret]
Called(fn, t, s, k, state, ps, value, result, ok) ==
    [fn |-> fn, t |-> t, s |-> s, k |-> k, state |-> state, pstate |-> ps,
     value |-> value, result |-> result, ok |-> ok]

----------------------------------------------------------------------------
(* Model::run and Model::step *)

\* get_initial_state with every node given a flow state
get_initial_state_all_flow(ns, es, indices) ==
    [i \in 1..Len(indices) |->
        [node_states |-> [n \in 1..Len(ns) |-> NodeState_new_flow_state],
         edge_states |-> [e \in 1..Len(es) |-> EdgeState_new]]]

\* get_initial_state building one state whatever the number of scenarios
get_initial_state_single(ns, es, indices) ==
    <<[node_states |-> [n \in 1..Len(ns) |->
                          IF ns[n].role = "Storage"
                          THEN NodeState_new_storage_state(ns[n].initial_volume)
                          ELSE NodeState_new_flow_state],
       edge_states |-> [e \in 1..Len(es) |-> EdgeState_new]]>>

get_initial_state(ns, es, indices) ==
    [i \in 1..Len(indices) |->
        [node_states |-> [n \in 1..Len(ns) |->
                            IF ns[n].role = "Storage"
                            THEN NodeState_new_storage_state(ns[n].initial_volume)
                            ELSE NodeState_new_flow_state],
         edge_states |-> [e \in 1..Len(es) |-> EdgeState_new]]]

\* A lookup that falls back on the last state of the vector
step_current_state_clamped(states, scenario_index) ==
    IF scenario_index.index < Len(states)
    THEN [found |-> TRUE, state |-> states[scenario_index.index + 1]]
    ELSE IF Len(states) > 0
         THEN [found |-> TRUE, state |-> states[Len(states)]]
         ELSE [found |-> FALSE, state |-> NetworkState_new]

\* current_states.get(scenario_index.index)
step_current_state(states, scenario_index) ==
    IF scenario_index.index < Len(states)
    THEN [found |-> TRUE, state |-> states[scenario_index.index + 1]]
    ELSE [found |-> FALSE, state |-> NetworkState_new]

\* step handing the recorders the state it gave the solver
step_recorded_state_stale(current, next) == current

\* The state step hands to save_recorders: &next_state
step_recorded_state(current, next) == next

\* A recorder's error dropped instead of returned
save_propagates_never(ret) == FALSE

\* The `?` after recorder.save: an Err is returned at once
save_propagates(ret) == ret.tag = "Err"

\* The value pushed before the values computed so far
parameter_state_push_front(parameter_state, value) == <<value>> \o parameter_state

\* Line 131: parameter_state.push(value)
parameter_state_push(parameter_state, value) == Append(parameter_state, value)

\* The solver's setup error dropped instead of returned
setup_propagates_never(ret) == FALSE

\* The `?` after solver.setup: an Err is returned at once
setup_propagates(ret) == ret.tag = "Err"

\* The timestep the loop of run stands at
Timestep == timesteps[ts_pos + 1]

\* The scenarios walked from the last one to the first
Scenario_reversed == scenario_indices[Len(scenario_indices) - sc_pos]

\* The scenario the loop of step stands at
Scenario == scenario_indices[sc_pos + 1]

\* run returns: its locals are dropped
Return(ret) ==
    /\ pc' = "idle"
    /\ run_ret' = ret
    /\ current_states' = <<>>
    /\ ts_pos' = 0
    /\ next_states' = <<>>
    /\ sc_pos' = 0
    /\ current_state' = NetworkState_new
    /\ pstate' = <<>>
    /\ next_state' = NetworkState_new
    /\ rec_pos' = 0
    /\ UNCHANGED <<timesteps, scenario_indices>>

\* Lines 74-77: the timesteps, the scenario indices and the initial states
run_start(n_timesteps, sizes) ==
    /\ pc = "idle"
    /\ last.ret.tag # "Panic"
    /\ timesteps' = Timestepper_timesteps(n_timesteps)
    /\ scenario_indices' = ScenarioGroupCollection_scenario_indices(sizes)
    /\ current_states' = get_initial_state(nodes, edges, scenario_indices')
    /\ pc' = "setup"
    /\ run_ret' = Pending
    /\ trace' = <<>>
    /\ calls' = <<>>
    /\ solved' = [i \in 1..Len(scenario_indices') |-> [t |-> None, state |-> NetworkState_new]]
    /\ recorders_at_start' = recorders
    /\ scenarios' = sizes
    /\ UNCHANGED <<ts_pos, next_states, sc_pos, current_state, pstate, next_state, rec_pos>>
    /\ UNCHANGED modelvars

\* Line 81: solver.setup(self)?
run_setup(ok) ==
    /\ pc = "setup"
    /\ LET ret == IF ok THEN Ok(None) ELSE Err("SolverSetupFailed") IN
       /\ trace' = Append(trace, Traced("setup", None, None, None, ret))
       /\ IF setup_propagates(ret)
          THEN Return(ret)
          ELSE /\ pc' = "timestep"
               /\ UNCHANGED <<timesteps, scenario_indices, current_states, ts_pos, next_states,
                              sc_pos, current_state, pstate, next_state, rec_pos, run_ret>>
    /\ UNCHANGED <<calls, solved>>
    /\ UNCHANGED <<recorders_at_start, scenarios>>
    /\ UNCHANGED modelvars

\* Lines 84-92: the next timestep is stepped, or run returns Ok
run_timestep ==
    /\ pc = "timestep"
    /\ IF ts_pos < Len(timesteps)
       THEN /\ pc' = "scenario"
            /\ next_states' = <<>>
            /\ sc_pos' = 0
            /\ UNCHANGED <<timesteps, scenario_indices, current_states, ts_pos,
                           current_state, pstate, next_state, rec_pos, run_ret>>
       ELSE Return(Ok(None))
    /\ UNCHANGED <<trace, calls, solved>>
    /\ UNCHANGED <<recorders_at_start, scenarios>>
    /\ UNCHANGED modelvars

\* Lines 105-110 and 119, 86: the next scenario's state is looked up, or step
\* returns next_states, which become the current states
step_scenario ==
    /\ pc = "scenario"
    /\ IF sc_pos < Len(scenario_indices)
       THEN LET got == step_current_state(current_states, Scenario) IN
            IF got.found
            THEN /\ current_state' = got.state
                 /\ pstate' = <<>>
                 /\ pc' = "parameters"
                 /\ calls' = <<>>
                 /\ UNCHANGED <<timesteps, scenario_indices, current_states, ts_pos,
                                next_states, sc_pos, next_state, rec_pos, run_ret>>
            ELSE /\ Return(Err("ScenarioStateNotFound"))
                 /\ UNCHANGED calls
       ELSE /\ current_states' = next_states
            /\ ts_pos' = ts_pos + 1
            /\ pc' = "timestep"
            /\ UNCHANGED <<timesteps, scenario_indices, next_states, sc_pos, current_state,
                           pstate, next_state, rec_pos, run_ret, calls>>
    /\ UNCHANGED <<trace, solved>>
    /\ UNCHANGED <<recorders_at_start, scenarios>>
    /\ UNCHANGED modelvars

\* Lines 129-132: the next parameter computes a value from the state and the
\* values before it, or fails
compute_parameter(ok, value) ==
    /\ pc = "parameters"
    /\ Len(pstate) < Len(parameters)
    /\ LET k == Len(pstate)
           ret == IF ok THEN Ok(None) ELSE ErrNamed("ParameterError", parameters[k + 1].name, k)
       IN
       /\ trace' = Append(trace, Traced("compute", Timestep.index, Scenario.index, k, ret))
       /\ calls' = Append(calls, Called("compute", Timestep.index, Scenario.index, k,
                                        current_state, pstate, value, NetworkState_new, ok))
       /\ IF ok
          THEN /\ pstate' = parameter_state_push(pstate, value)
               /\ UNCHANGED <<pc, timesteps, scenario_indices, current_states, ts_pos,
                              next_states, sc_pos, current_state, next_state, rec_pos, run_ret>>
          ELSE Return(ret)
    /\ UNCHANGED solved
    /\ UNCHANGED <<recorders_at_start, scenarios>>
    /\ UNCHANGED modelvars

\* Line 134: compute_parameters returns the parameter state
compute_parameters_done ==
    /\ pc = "parameters"
    /\ Len(pstate) = Len(parameters)
    /\ pc' = "solve"
    /\ UNCHANGED <<timesteps, scenario_indices, current_states, ts_pos, next_states, sc_pos,
                   current_state, pstate, next_state, rec_pos, run_ret, trace, calls, solved>>
    /\ UNCHANGED <<recorders_at_start, scenarios>>
    /\ UNCHANGED modelvars

\* Line 112: solver.solve(&self, timestep, current_state, &pstate)?, the solver
\* returning solved_state, or failing
step_solved(ok, solved_state) ==
    /\ pc = "solve"
    /\ LET ret == IF ok THEN Ok(None) ELSE Err("SolverInfeasible")
           result == IF ok THEN solved_state ELSE NetworkState_new
       IN
       /\ trace' = Append(trace, Traced("solve", Timestep.index, Scenario.index, None, ret))
       /\ calls' = Append(calls, Called("solve", Timestep.index, Scenario.index, None,
                                        current_state, pstate, None, result, ok))
       /\ IF ok
          THEN /\ next_state' = result
               /\ rec_pos' = 0
               /\ pc' = "recorders"
               /\ solved' = [solved EXCEPT ![Scenario.index + 1] =
                                [t |-> Timestep.index, state |-> result]]
               /\ UNCHANGED <<timesteps, scenario_indices, current_states, ts_pos,
                              next_states, sc_pos, current_state, pstate, run_ret>>
          ELSE /\ Return(ret)
               /\ UNCHANGED solved
    /\ UNCHANGED <<recorders_at_start, scenarios>>
    /\ UNCHANGED modelvars

\* Line 112 with a solver that decides the level of every flow and volume
step_solve(ok, level) == step_solved(ok, Solver_solve(current_state, level))

\* Line 112 with the LP solver
step_solve_clp ==
    /\ pc = "solve"
    /\ \E r \in ClpSolver_solve(nodes, edges, Timestep, current_state, pstate) :
          step_solved(r.ok, r.state)

\* Lines 129-132 with a built-in parameter
compute_parameter_builtin ==
    /\ pc = "parameters"
    /\ Len(pstate) < Len(parameters)
    /\ LET r == Parameter_compute(parameters[Len(pstate) + 1], Timestep, pstate)
       IN  compute_parameter(r.ok, r.value)

\* The recorders walked from the last one added to the first
recorders_iter_mut_rev(rs, pos) == Len(rs) - 1 - pos

\* Line 144: self.recorders.iter_mut(): the index of the recorder visited at
\* position pos of the loop
recorders_iter_mut(rs, pos) == pos

\* The saved recorder taken out of its place and pushed at the end
recorder_saved_moved(rs, index, recorder) ==
    SubSeq(rs, 1, index) \o SubSeq(rs, index + 2, Len(rs)) \o <<recorder>>

\* Lines 144-145: save takes the recorder by &mut, where it stands in the vector
recorder_saved(rs, index, recorder) == [rs EXCEPT ![index + 1] = recorder]

\* Lines 144-146: the next recorder saves, or fails
save_recorder(ok) ==
    /\ pc = "recorders"
    /\ rec_pos < Len(recorders)
    /\ LET index == recorders_iter_mut(recorders, rec_pos)
           ret == IF ok THEN Ok(None)
                  ELSE ErrNamed("AssertionFailed", recorders[index + 1].name, index)
       IN
       /\ trace' = Append(trace, Traced("save", Timestep.index, Scenario.index, index, ret))
       /\ calls' = Append(calls, Called("save", Timestep.index, Scenario.index, index,
                                        step_recorded_state(current_state, next_state),
                                        pstate, None, NetworkState_new, ok))
       /\ IF save_propagates(ret)
          THEN Return(ret)
          ELSE /\ rec_pos' = rec_pos + 1
               /\ UNCHANGED <<pc, timesteps, scenario_indices, current_states, ts_pos,
                              next_states, sc_pos, current_state, pstate, next_state, run_ret>>
       /\ recorders' = recorder_saved(recorders, index,
                                      Recorder_save(recorders[index + 1], Timestep, Scenario, ok))
    /\ UNCHANGED <<nodes, edges, parameters, last>>
    /\ UNCHANGED <<solved, recorders_at_start, scenarios>>

\* Lines 147 and 116: save_recorders returns; the state is pushed
step_push ==
    /\ pc = "recorders"
    /\ rec_pos = Len(recorders)
    /\ next_states' = Append(next_states, next_state)
    /\ sc_pos' = sc_pos + 1
    /\ pc' = "scenario"
    /\ UNCHANGED <<timesteps, scenario_indices, current_states, ts_pos, current_state,
                   pstate, next_state, rec_pos, run_ret, trace, calls, solved>>
    /\ UNCHANGED <<recorders_at_start, scenarios>>
    /\ UNCHANGED modelvars

----------------------------------------------------------------------------
(* Running a built model *)

\* Group sizes of the scenario collections tried
ScenarioSizes == {<<>>} \cup {<<n>> : n \in 1..MaxScenarios} \cup {<<1, MaxScenarios>>}

\* The registries after adding the first n of the names
RECURSIVE AddedParameters(_)
AddedParameters(names) ==
    IF names = <<>> THEN <<>>
    ELSE add_parameter(AddedParameters(SubSeq(names, 1, Len(names) - 1)),
                       DynParameter_new(names[Len(names)])).parameters

RECURSIVE AddedRecorders(_)
AddedRecorders(names) ==
    IF names = <<>> THEN <<>>
    ELSE add_recorder(AddedRecorders(SubSeq(names, 1, Len(names) - 1)),
                      Recorder_new(names[Len(names)], FALSE)).recorders

\* A reservoir feeding a demand, with up to two parameters and two assertion
\* recorders
InitRun ==
    /\ LET ns == add_output_node(add_storage_node(<<>>, "a", 2).nodes, "b").nodes
           built == connect_nodes(ns, <<>>, 0, 1)
       IN nodes = built.nodes /\ edges = built.edges
    /\ \E n \in 0..2 : parameters = AddedParameters(SubSeq(<<"p", "q">>, 1, n))
    /\ \E n \in 0..2 : recorders = AddedRecorders(SubSeq(<<"r", "s">>, 1, n))
    /\ last = Call("new", "", None, None, "", Ok(None))
    /\ NoRun

NextRun ==
    \/ \E n \in 1..MaxTimesteps, sizes \in ScenarioSizes : run_start(n, sizes)
    \/ \E ok \in BOOLEAN : run_setup(ok)
    \/ run_timestep
    \/ step_scenario
    \/ \E v \in ParameterValues : compute_parameter(TRUE, v)
    \/ compute_parameter(FALSE, None)
    \/ compute_parameters_done
    \/ \E level \in SolverLevels : step_solve(TRUE, level)
    \/ step_solve(FALSE, None)
    \/ \E ok \in BOOLEAN : save_recorder(ok)
    \/ step_push

SpecRun == InitRun /\ [][NextRun]_vars

\* The same network with one parameter and one accumulating recorder
InitRecord ==
    /\ LET ns == add_output_node(add_storage_node(<<>>, "a", 2).nodes, "b").nodes
           built == connect_nodes(ns, <<>>, 0, 1)
       IN nodes = built.nodes /\ edges = built.edges
    /\ parameters = AddedParameters(<<"p">>)
    /\ recorders = add_recorder(<<>>, Recorder_new("r", TRUE)).recorders
    /\ last = Call("new", "", None, None, "", Ok(None))
    /\ NoRun

SpecRecord == InitRecord /\ [][NextRun]_vars

----------------------------------------------------------------------------
(* Model::step called on its own, with any vector of current states *)

\* Whether the calls traced are those of a run, or of a call of step
InRun == Len(trace) >= 1 /\ trace[1].fn = "setup"
InStep == Len(trace) >= 1 /\ trace[1].fn = "step"

\* Lines 96-103: step is called with a timestep, the scenario indices of one
\* collection and a vector of states, here one state per scenario of a
\* collection that may be another one; the trace starts with the call and the
\* length of the vector given. The caller may call again once step returned.
step_start(n, sizes, state_sizes) ==
    /\ pc = "idle" \/ (pc = "timestep" /\ InStep)
    /\ last.ret.tag # "Panic"
    /\ timesteps' = <<Timestepper_timesteps(n)[n]>>
    /\ scenario_indices' = ScenarioGroupCollection_scenario_indices(sizes)
    /\ current_states' = get_initial_state(nodes, edges,
                                           ScenarioGroupCollection_scenario_indices(state_sizes))
    /\ next_states' = <<>>
    /\ sc_pos' = 0
    /\ ts_pos' = 0
    /\ pc' = "scenario"
    /\ run_ret' = Pending
    /\ trace' = <<Traced("step", timesteps'[1].index, None, Len(current_states'), Pending)>>
    /\ calls' = <<>>
    /\ solved' = [i \in 1..Len(scenario_indices') |-> [t |-> None, state |-> NetworkState_new]]
    /\ recorders_at_start' = recorders
    /\ scenarios' = sizes
    /\ UNCHANGED <<current_state, pstate, next_state, rec_pos>>
    /\ UNCHANGED modelvars

\* A reservoir feeding a demand, with one parameter and one assertion recorder
InitStep ==
    /\ LET ns == add_output_node(add_storage_node(<<>>, "a", 2).nodes, "b").nodes
           built == connect_nodes(ns, <<>>, 0, 1)
       IN nodes = built.nodes /\ edges = built.edges
    /\ parameters = AddedParameters(<<"p">>)
    /\ recorders = AddedRecorders(<<"r">>)
    /\ last = Call("new", "", None, None, "", Ok(None))
    /\ NoRun

\* run, and step called on its own; run's loop goes on only within a run
NextStep ==
    \/ \E n \in 1..MaxTimesteps, sizes \in ScenarioSizes, state_sizes \in ScenarioSizes :
          step_start(n, sizes, state_sizes)
    \/ \E n \in 1..MaxTimesteps, sizes \in ScenarioSizes : run_start(n, sizes)
    \/ \E ok \in BOOLEAN : run_setup(ok)
    \/ InRun /\ run_timestep
    \/ step_scenario
    \/ \E v \in ParameterValues : compute_parameter(TRUE, v)
    \/ compute_parameter(FALSE, None)
    \/ compute_parameters_done
    \/ \E level \in SolverLevels : step_solve(TRUE, level)
    \/ step_solve(FALSE, None)
    \/ \E ok \in BOOLEAN : save_recorder(ok)
    \/ step_push

SpecStep == InitStep /\ [][NextStep]_vars

----------------------------------------------------------------------------
(* Running the two test models with their parameters and the LP solver *)

MaxDrainVolume == 3
MaxDemand == 2

\* default_timestepper: 2020-01-01 to 2020-01-15 in steps of one day
DefaultTimesteps == 15

\* tests::simple_storage_model: a reservoir of 100 feeding a demand of 10
ExampleDrain == [initial_volume |-> 100 * Unit, demand |-> 10 * Unit]

\* The reservoir models tried: small ones and the one of the test
DrainModels ==
    {[initial_volume |-> v, demand |-> d] : v \in 0..MaxDrainVolume, d \in 0..MaxDemand}
        \cup {ExampleDrain}

\* simple_storage_model, with the initial volume and the demand given
simple_storage_model(initial_volume, demand) ==
    LET n1 == add_storage_node(<<>>, "reservoir", initial_volume).nodes
        n2 == add_output_node(n1, "output").nodes
        c1 == connect_nodes(n2, <<>>, 0, 1)
        p1 == add_parameter(<<>>, ConstantParameter_new("demand", demand)).parameters
        n3 == set_node_constraint(c1.nodes, p1, 1, 0, "MaxFlow").nodes
        p2 == add_parameter(p1, ConstantParameter_new("demand-cost", (0 - 10) * Unit)).parameters
        n4 == set_node_cost(n3, p2, 1, 1).nodes
        p3 == add_parameter(p2, ConstantParameter_new("max-volume", initial_volume)).parameters
        n5 == set_node_constraint(n4, p3, 0, 2, "MaxVolume").nodes
    IN  [nodes |-> n5, edges |-> c1.edges, parameters |-> p3]

\* test_run_storage: the model with its two assertion recorders
InitDrain ==
    /\ \E m \in DrainModels :
          LET model == simple_storage_model(m.initial_volume, m.demand) IN
          /\ nodes = model.nodes
          /\ edges = model.edges
          /\ parameters = model.parameters
    /\ recorders = AddedRecorders(<<"output-flow", "reservoir-volume">>)
    /\ last = Call("new", "", None, None, "", Ok(None))
    /\ NoRun

\* One run of the model, every collaborator doing what it computes
NextFlow ==
    \/ \E n \in 1..MaxTimesteps \cup {DefaultTimesteps}, sizes \in ScenarioSizes :
          run_ret = Pending /\ run_start(n, sizes)
    \/ run_setup(TRUE)
    \/ run_timestep
    \/ step_scenario
    \/ compute_parameter_builtin
    \/ compute_parameters_done
    \/ step_solve_clp
    \/ save_recorder(TRUE)
    \/ step_push

SpecDrain == InitDrain /\ [][NextFlow]_vars

MaxInflow == 2

\* The length of the vector of inflows of tests::simple_model
InflowLength == 366

\* tests::simple_model: an inflow of 10, a demand of 10 times 1.2
ExampleChain == [inflow |-> 10 * Unit, base_demand |-> 10 * Unit, demand_factor |-> 12]

\* The chain models tried: small ones and the one of the test
ChainModels ==
    {[inflow |-> a, base_demand |-> b, demand_factor |-> f] :
        a \in 0..MaxInflow, b \in 0..MaxDemand, f \in {Unit, 2 * Unit}}
        \cup {ExampleChain}

\* simple_model, with the inflow, the base demand and the demand factor given
simple_model(inflow, base_demand, demand_factor) ==
    LET n1 == add_input_node(<<>>, "input").nodes
        n2 == add_link_node(n1, "link").nodes
        n3 == add_output_node(n2, "output").nodes
        c1 == connect_nodes(n3, <<>>, 0, 1)
        c2 == connect_nodes(c1.nodes, c1.edges, 1, 2)
        p1 == add_parameter(<<>>, VectorParameter_new("inflow",
                                     [i \in 1..InflowLength |-> inflow])).parameters
        n4 == set_node_constraint(c2.nodes, p1, 0, 0, "MaxFlow").nodes
        p2 == add_parameter(p1, ConstantParameter_new("base-demand", base_demand)).parameters
        p3 == add_parameter(p2, ConstantParameter_new("demand-factor", demand_factor)).parameters
        p4 == add_parameter(p3, AggregatedParameter_new("total-demand", <<1, 2>>,
                                                        "Product")).parameters
        n5 == set_node_constraint(n4, p4, 2, 3, "MaxFlow").nodes
        p5 == add_parameter(p4, ConstantParameter_new("demand-cost", (0 - 10) * Unit)).parameters
        n6 == set_node_cost(n5, p5, 2, 4).nodes
    IN  [nodes |-> n6, edges |-> c2.edges, parameters |-> p5]

\* test_run: the model with its four assertion recorders
InitChain ==
    /\ \E m \in ChainModels :
          LET model == simple_model(m.inflow, m.base_demand, m.demand_factor) IN
          /\ nodes = model.nodes
          /\ edges = model.edges
          /\ parameters = model.parameters
    /\ recorders = AddedRecorders(<<"input-flow", "link-flow", "output-flow", "total-demand">>)
    /\ last = Call("new", "", None, None, "", Ok(None))
    /\ NoRun

SpecChain == InitChain /\ [][NextFlow]_vars

----------------------------------------------------------------------------
(* PyParameter (src/src/parameters/py.rs) *)

\* What calling the `compute` method of a Python object does: it raises an
\* exception with a message (an object without the method raises as well), or
\* it returns a Python value of some type
PyRaises(message) == [raises |-> TRUE, message |-> message, type |-> "", value |-> None]
PyReturns(type, value) == [raises |-> FALSE, message |-> "", type |-> type, value |-> value]

PyMessages == {"AttributeError: 'object' has no attribute 'compute'", "ValueError: no data"}
PyOutcomes ==
    {PyRaises(m) : m \in PyMessages}
        \cup {PyReturns(type, v) : type \in {"float", "int"}, v \in ParameterValues}
        \cup {PyReturns("str", None), PyReturns("NoneType", None)}

\* Lines 11-16: PyParameter::new
PyParameter_new(name, obj) ==
    [name |-> name, kind |-> "Py", values |-> <<>>, children |-> <<>>, func |-> "",
     object |-> obj]

\* Line 33: self.object.call_method0(py, "compute")
PyObject_call_method0(object, method) ==
    IF object[method].raises
    THEN [ok |-> FALSE, message |-> object[method].message, py_value |-> PyReturns("", None)]
    ELSE [ok |-> TRUE, message |-> "", py_value |-> object[method]]

\* An extraction that yields 0.0 for what is not a number
PyAny_extract_or_default(py_value) ==
    IF py_value.type \in {"float", "int"}
    THEN [ok |-> TRUE, message |-> "", v |-> py_value.value]
    ELSE [ok |-> TRUE, message |-> "", v |-> 0]

\* Line 34: py_value.extract(py) to an f64: a float or what converts to one
PyAny_extract(py_value) ==
    IF py_value.type \in {"float", "int"}
    THEN [ok |-> TRUE, message |-> "", v |-> py_value.value]
    ELSE [ok |-> FALSE, message |-> "TypeError: must be real number, not " \o py_value.type,
          v |-> None]

\* Lines 23-42: PyParameter::compute
PyParameter_compute(self, timestep, scenario_index, state, parameter_state) ==
    LET called == PyObject_call_method0(self.object, "compute") IN
    IF called.ok
    THEN LET extracted == PyAny_extract(called.py_value) IN
         IF extracted.ok
         THEN Ok(extracted.v)
         ELSE ErrNamed("PythonError", extracted.message, None)
    ELSE ErrNamed("PythonError", called.message, None)

\* The arguments compute is called with
PyStates == {NetworkState_new, get_initial_state(<<Node_new_storage(0, "a", 2)>>, <<>>, <<0>>)[1]}
PyParameterStates == {<<>>, <<1>>}

\* A model holding one PyParameter, and a timestep, a scenario, a state and
\* prior values to call it with
InitPy ==
    /\ nodes = <<>>
    /\ edges = <<>>
    /\ \E outcome \in PyOutcomes :
          parameters = add_parameter(<<>>, PyParameter_new("p", [compute |-> outcome])).parameters
    /\ recorders = <<>>
    /\ last = Call("new", "", None, None, "", Ok(None))
    /\ pc = "idle"
    /\ \E n \in 1..MaxTimesteps : timesteps = <<Timestepper_timesteps(n)[n]>>
    /\ \E sizes \in ScenarioSizes :
          LET indices == ScenarioGroupCollection_scenario_indices(sizes)
          IN  scenario_indices = <<indices[Len(indices)]>> /\ scenarios = sizes
    /\ current_state \in PyStates
    /\ pstate \in PyParameterStates
    /\ current_states = <<>>
    /\ ts_pos = 0
    /\ next_states = <<>>
    /\ sc_pos = 0
    /\ next_state = NetworkState_new
    /\ rec_pos = 0
    /\ run_ret = Pending
    /\ trace = <<>>
    /\ calls = <<>>
    /\ solved = <<>>
    /\ recorders_at_start = <<>>

Call_PyParameter_compute ==
    /\ Alive
    /\ last' = Call("PyParameter_compute", parameters[1].name, None, None, "",
                    PyParameter_compute(parameters[1], timesteps[1], scenario_indices[1],
                                        current_state, pstate))
    /\ UNCHANGED <<nodes, edges, parameters, recorders>>
    /\ UNCHANGED runvars

NextPy == Call_PyParameter_compute

SpecPy == InitPy /\ [][NextPy]_vars

----------------------------------------------------------------------------
(* Declaring scenario groups and enumerating the scenarios *)

MaxGroups == 3
MaxGroupSize == 3

\* The groups of tests::test_scenario_iteration
ExampleGroups == <<10, 2, 5>>

Call_add_group(size) ==
    LET groups == ScenarioGroupCollection_add_group(scenarios, size) IN
    /\ Alive
    /\ Len(scenarios) < MaxGroups
    /\ \/ size <= MaxGroupSize
       \/ Len(groups) <= Len(ExampleGroups) /\ groups = SubSeq(ExampleGroups, 1, Len(groups))
    /\ scenarios' = groups
    /\ last' = Call("add_group", "", size, None, "", Ok(None))
    /\ UNCHANGED <<nodes, edges, parameters, recorders>>
    /\ UNCHANGED <<pc, timesteps, scenario_indices, current_states, ts_pos, next_states, sc_pos,
                   current_state, pstate, next_state, rec_pos, run_ret, trace, calls, solved,
                   recorders_at_start>>

Call_scenario_indices ==
    /\ Alive
    /\ scenario_indices' = ScenarioGroupCollection_scenario_indices(scenarios)
    /\ last' = Call("scenario_indices", "", None, None, "", Ok(None))
    /\ UNCHANGED <<nodes, edges, parameters, recorders>>
    /\ UNCHANGED <<pc, timesteps, current_states, ts_pos, next_states, sc_pos,
                   current_state, pstate, next_state, rec_pos, run_ret, trace, calls, solved,
                   recorders_at_start, scenarios>>

NextScenarios ==
    \/ \E size \in 1..MaxGroupSize \cup {ExampleGroups[g] : g \in 1..Len(ExampleGroups)} :
          Call_add_group(size)
    \/ Call_scenario_indices

SpecScenarios == Init /\ [][NextScenarios]_vars

----------------------------------------------------------------------------
(* Properties of the run loop *)

\* C8: for every (timestep, scenario) the calls come in the order: every
\* parameter computed, then solve with that parameter state and the scenario's
\* current state, then every save with the state that solve returned and the
\* same parameter state; no save before or without a successful solve.
C8_PhasesInOrder ==
    \A j \in 1..Len(calls) :
        LET c == calls[j]
            np == Len(parameters)
        IN  /\ c.t = calls[1].t
            /\ c.s = calls[1].s
            /\ c.fn = "compute" => (j <= np /\ c.k = j - 1)
            /\ c.fn = "solve"
               => (/\ j = np + 1
                   /\ \A i \in 1..np : calls[i].fn = "compute" /\ calls[i].ok
                   /\ c.pstate = [i \in 1..np |-> calls[i].value]
                   /\ pc \in {"solve", "recorders"} => c.state = current_states[c.s + 1])
            /\ c.fn = "save"
               => (/\ j > np + 1
                   /\ calls[np + 1].fn = "solve"
                   /\ calls[np + 1].ok
                   /\ c.state = calls[np + 1].result
                   /\ c.pstate = calls[np + 1].pstate)

C8_Witness ==
    /\ Len(parameters) = 2
    /\ Len(recorders) = 2
    /\ Len(calls) = 5
    /\ calls[5].fn = "save"
    /\ calls[5].ok
    /\ calls[5].pstate = <<2, 1>>
    /\ calls[5].state # calls[3].state

\* C9: the state given to solve for a scenario at the first timestep is the
\* initial state (flows zero, a storage node at its initial_volume, edge flows
\* zero), in every run; at a later timestep it is the state solve returned for
\* the same scenario at the timestep before.
C9_StateCarriedPerScenario ==
    [][(pc = "solve" /\ Len(calls') = Len(calls) + 1)
       => LET c == calls'[Len(calls')] IN
          /\ c.fn = "solve"
          /\ c.t = 0
             => (/\ Len(c.state.node_states) = Len(nodes)
                 /\ \A n \in 1..Len(nodes) :
                       c.state.node_states[n] =
                          [kind |-> IF nodes[n].role = "Storage" THEN "Storage" ELSE "Flow",
                           volume |-> IF nodes[n].role = "Storage"
                                      THEN nodes[n].initial_volume ELSE 0,
                           in_flow |-> 0, out_flow |-> 0]
                 /\ Len(c.state.edge_states) = Len(edges)
                 /\ \A e \in 1..Len(edges) : c.state.edge_states[e].flow = 0)
          /\ c.t > 0
             => (/\ solved[c.s + 1].t = c.t - 1
                 /\ c.state = solved[c.s + 1].state)]_vars

C9_Witness ==
    /\ pc = "recorders"
    /\ Timestep.index = 1
    /\ Scenario.index = 1
    /\ current_states[1] # current_states[2]
    /\ current_state = current_states[2]
    /\ calls[Len(calls)].state = current_states[2]
    /\ run_ret = Pending

\* C10: run returns Ok exactly when every compute, setup, solve and save call
\* succeeded; otherwise it returns the error of the first failing call, after
\* which no call is made; when solve fails for the first scenario of the first
\* timestep no save was called.
C10_FirstErrorReturned ==
    LET n == Len(trace)
        AllOk == \A j \in 1..n : trace[j].ret.tag = "Ok"
    IN  /\ \A j \in 1..(n - 1) : trace[j].ret.tag = "Ok"
        /\ (n > 0 /\ trace[n].ret.tag = "Err") => (pc = "idle" /\ run_ret = trace[n].ret)
        /\ (pc = "idle" /\ run_ret # Pending)
           => (/\ run_ret.tag = "Ok" <=> AllOk
               /\ run_ret.tag = "Err" => (n > 0 /\ run_ret = trace[n].ret))
        /\ (/\ n > 0
            /\ trace[n].fn = "solve"
            /\ trace[n].ret.tag = "Err"
            /\ trace[n].t = 0
            /\ trace[n].s = 0)
           => \A j \in 1..n : trace[j].fn # "save"

C10_Witness ==
    /\ pc = "idle"
    /\ run_ret = Err("SolverInfeasible")
    /\ Len(parameters) = 2
    /\ Len(recorders) = 2
    /\ Len(trace) = 4
    /\ trace[4].fn = "solve"

\* C11: when a run returns an error, nothing the run produced remains in the
\* model: every recorder holds the observations it held when the run started,
\* those it saved for pairs completed before the error included.
C11_AbortedRunLeavesNothing ==
    (pc = "idle" /\ run_ret.tag = "Err") => recorders = recorders_at_start

\* C12: add_parameter rejects an Aggregated parameter that reads an index not
\* below the one it would get (an index not in the registry yet, or its own),
\* so that every Aggregated parameter of the registry reads only indices
\* strictly below its own.
C12_ForwardReferenceRejected ==
    [][last'.op = "add_parameter"
       => /\ Len(parameters') > Len(parameters)
             => \A c \in 1..Len(parameters'[Len(parameters')].children) :
                   parameters'[Len(parameters')].children[c] < Len(parameters)
          /\ \A k \in 1..Len(parameters') :
                \A c \in 1..Len(parameters'[k].children) :
                   parameters'[k].children[c] < k - 1]_vars

\* C13: for each (timestep, scenario) the parameters are computed in the order
\* they were added: the parameter at position k is handed exactly k prior
\* values, the j-th of them the value parameter j produced for the same
\* timestep and scenario; the parameter state that results has one value per
\* parameter, in the same order.
C13_PriorValuesInOrder ==
    /\ \A j \in 1..Len(calls) :
          calls[j].fn = "compute"
          => /\ calls[j].k = j - 1
             /\ Len(calls[j].pstate) = calls[j].k
             /\ \A i \in 1..(j - 1) :
                   /\ calls[i].fn = "compute"
                   /\ calls[i].k = i - 1
                   /\ calls[i].t = calls[j].t
                   /\ calls[i].s = calls[j].s
                   /\ calls[j].pstate[i] = calls[i].value
    /\ pc \in {"solve", "recorders"}
       => /\ Len(pstate) = Len(parameters)
          /\ \A i \in 1..Len(parameters) :
                calls[i].fn = "compute" /\ pstate[i] = calls[i].value

C13_Witness ==
    /\ pc = "solve"
    /\ Len(parameters) = 2
    /\ Timestep.index = 1
    /\ Scenario.index = 1
    /\ calls[2].fn = "compute"
    /\ calls[2].pstate = <<2>>
    /\ pstate = <<2, 1>>

\* The calls of the current run for a (timestep, scenario) pair, and its
\* solve calls
PairCalls == SelectSeq(trace, LAMBDA e : e.fn \in {"compute", "solve", "save"})
SolveCalls == SelectSeq(trace, LAMBDA e : e.fn = "solve")

\* C14: the calls of a run go through the (timestep, scenario) pairs in
\* lexicographic order, the timestep first: no call for a pair comes after a
\* call for a later pair, so every scenario of a timestep is done before
\* anything is called for the next timestep; the i-th solve call is for the
\* i-th pair, and a run that returns Ok has made one solve call per pair,
\* (number of timesteps) x (number of scenarios) in all.
C14_PairsInLexicographicOrder ==
    LET ns == Len(scenario_indices)
        pairs == PairCalls
        solves == SolveCalls
    IN
    /\ \A j \in 1..Len(pairs) : \A k \in j..Len(pairs) :
          \/ pairs[j].t < pairs[k].t
          \/ pairs[j].t = pairs[k].t /\ pairs[j].s <= pairs[k].s
    /\ \A i \in 1..Len(solves) :
          /\ solves[i].t = timesteps[((i - 1) \div ns) + 1].index
          /\ solves[i].s = scenario_indices[((i - 1) % ns) + 1].index
    /\ (pc = "idle" /\ run_ret.tag = "Ok")
       => Len(solves) = Len(timesteps) * ns

C14_Witness ==
    /\ pc = "idle"
    /\ run_ret.tag = "Ok"
    /\ Len(timesteps) = 2
    /\ Len(scenario_indices) = 2
    /\ Len(SolveCalls) = 4
    /\ SolveCalls[2].t = 0 /\ SolveCalls[2].s = 1
    /\ SolveCalls[3].t = 1 /\ SolveCalls[3].s = 0

\* C15: in every run solver.setup is the first call made and is made once:
\* no compute, solve or save call comes before it and it is not called again
\* while the run lasts; when it fails, run returns its error and nothing else
\* was called.
C15_SetupOnceFirst ==
    /\ pc \notin {"idle", "setup"} => Len(trace) >= 1
    /\ (pc = "idle" /\ run_ret # Pending) => Len(trace) >= 1
    /\ \A j \in 1..Len(trace) : trace[j].fn = "setup" <=> j = 1
    /\ (Len(trace) >= 1 /\ trace[1].ret.tag = "Err")
       => (Len(trace) = 1 /\ pc = "idle" /\ run_ret = trace[1].ret)

C15_Witness ==
    /\ pc = "solve"
    /\ Timestep.index = 1
    /\ Len(parameters) = 2
    /\ Len(recorders) = 2
    /\ Len(SolveCalls) >= 1
    /\ Cardinality({j \in 1..Len(trace) : trace[j].fn = "setup"}) = 1
    /\ trace[1].ret.tag = "Ok"

LexLess(a, b) ==
    \E g \in 1..Len(a) : a[g] < b[g] /\ \A h \in 1..(g - 1) : a[h] = b[h]

\* C17: for groups of sizes (n1, ..., nk) scenario_indices yields n1*...*nk
\* scenario indices; each has one coordinate per group, within the group's
\* size; the first is all zeros and each next one comes strictly later in
\* lexicographic order, the last group varying fastest, so that every tuple of
\* the Cartesian product is there once; index is the position. For sizes
\* (10, 2, 5): index 5 is [0,1,0], index 10 is [1,0,0], index 99 is [9,1,4].
C17_ScenarioEnumeration ==
    [][last'.op = "scenario_indices"
       => LET sizes == scenarios
              idx == scenario_indices'
          IN  /\ Len(idx) = Product(sizes)
              /\ \A i \in 1..Len(idx) :
                    /\ idx[i].index = i - 1
                    /\ Len(idx[i].indices) = Len(sizes)
                    /\ \A g \in 1..Len(sizes) : idx[i].indices[g] \in 0..(sizes[g] - 1)
              /\ idx[1].indices = [g \in 1..Len(sizes) |-> 0]
              /\ \A i \in 1..(Len(idx) - 1) :
                    /\ LexLess(idx[i].indices, idx[i + 1].indices)
                    /\ idx[i + 1].indices[Len(sizes)] = (idx[i].indices[Len(sizes)] + 1) % sizes[Len(sizes)]
              /\ sizes = ExampleGroups
                 => /\ Len(idx) = 100
                    /\ idx[6] = [index |-> 5, indices |-> <<0, 1, 0>>]
                    /\ idx[11] = [index |-> 10, indices |-> <<1, 0, 0>>]
                    /\ idx[100] = [index |-> 99, indices |-> <<9, 1, 4>>]]_vars

C17_Witness ==
    /\ last.op = "scenario_indices"
    /\ scenarios = ExampleGroups
    /\ Len(scenario_indices) = 100
    /\ scenario_indices[100].indices = <<9, 1, 4>>

Smaller(a, b) == IF a < b THEN a ELSE b

\* C18: in the reservoir model (a Storage of initial volume V0 feeding an
\* Output of MaxFlow d and negative cost, timesteps of one day), for every
\* scenario and timestep t: the volume before the step is what t steps of
\* draining left of V0; the output's in_flow is the smaller of d and that
\* volume; the volume after is the volume before minus the flow, not below 0
\* and not above MaxVolume. With V0 = 100 and d = 10: the flow is 10 at the
\* first ten timesteps and 0 after, the volume 90, 80, ..., 10, 0, then 0.
C18_StorageDrains ==
    \A j \in 1..Len(calls) :
        calls[j].fn = "solve"
        => LET c == calls[j]
               v0 == nodes[1].initial_volume
               d == c.pstate[1]
               before == c.state.node_states[1].volume
               after == c.result.node_states[1].volume
               flow == c.result.node_states[2].in_flow
           IN  /\ c.ok
               /\ before = (IF v0 - c.t * d > 0 THEN v0 - c.t * d ELSE 0)
               /\ flow = Smaller(d, before)
               /\ c.result.node_states[1].out_flow = flow
               /\ c.result.edge_states[1].flow = flow
               /\ after = before - flow
               /\ after >= 0
               /\ after <= c.pstate[3]
               /\ (v0 = 100 * Unit /\ d = 10 * Unit)
                  => /\ flow = (IF c.t < 10 THEN 10 * Unit ELSE 0)
                     /\ after = (IF c.t < 10 THEN (90 - 10 * c.t) * Unit ELSE 0)

C18_Witness ==
    /\ pc = "recorders"
    /\ Len(timesteps) = 15
    /\ Timestep.index = 10
    /\ Scenario.index = 1
    /\ nodes[1].initial_volume = 100 * Unit
    /\ parameters[1].values = <<10 * Unit>>
    /\ current_state.node_states[1].volume = 0
    /\ next_state.node_states[2].in_flow = 0
    /\ solved[1].state.node_states[1].volume = 0

\* C19: in the chain model (an Input of MaxFlow a, a Link, an Output of
\* negative cost whose MaxFlow b is the Product of two earlier parameters), for
\* every scenario and timestep the parameter b is the product of its two
\* children, and the input's out_flow, the link's in_flow and out_flow and the
\* output's in_flow all equal the smaller of a and b; the recorders are handed
\* these flows and this parameter value. With a = 10 and children 10 and 1.2:
\* the flows are 10 and the parameter is 12.
C19_ChainFlows ==
    \A j \in 1..Len(calls) :
        calls[j].fn \in {"solve", "save"}
        => LET c == calls[j]
               s == IF c.fn = "solve" THEN c.result ELSE c.state
               a == c.pstate[1]
               b == c.pstate[4]
               flow == Smaller(a, b)
           IN  /\ c.ok
               /\ b * Unit = c.pstate[2] * c.pstate[3]
               /\ s.node_states[1].out_flow = flow
               /\ s.node_states[2].in_flow = flow
               /\ s.node_states[2].out_flow = flow
               /\ s.node_states[3].in_flow = flow
               /\ (a = 10 * Unit /\ c.pstate[2] = 10 * Unit /\ c.pstate[3] = 12)
                  => (flow = 10 * Unit /\ b = 12 * Unit)

C19_Witness ==
    /\ pc = "recorders"
    /\ rec_pos = 4
    /\ Timestep.index = 1
    /\ Scenario.index = 1
    /\ pstate = <<10 * Unit, 10 * Unit, 12, 12 * Unit, (0 - 10) * Unit>>
    /\ calls[Len(calls)].fn = "save"
    /\ calls[Len(calls)].state.node_states[2].out_flow = 10 * Unit
    /\ calls[Len(calls)].pstate[4] = 12 * Unit

\* C20: PyParameter.compute returns Ok(v) exactly when the call of the
\* object's compute method succeeds and its result extracts to a float v;
\* when the call or the extraction fails it returns the external-parameter
\* error (PywrError::PythonError) carrying the message of the failure, never a
\* panic or a default value; what it returns is the same whatever timestep,
\* scenario, state and prior values it is given.
C20_PyParameterCompute ==
    last.op = "PyParameter_compute"
    => LET outcome == parameters[1].object.compute
           floatable == ~outcome.raises /\ outcome.type \in {"float", "int"}
       IN  /\ last.ret.tag \in {"Ok", "Err"}
           /\ last.ret.tag = "Ok" <=> floatable
           /\ floatable => last.ret = Ok(outcome.value)
           /\ outcome.raises => last.ret = ErrNamed("PythonError", outcome.message, None)
           /\ (~outcome.raises /\ ~floatable)
              => /\ last.ret.tag = "Err"
                 /\ last.ret.err = "PythonError"
                 /\ last.ret.name = "TypeError: must be real number, not " \o outcome.type
           /\ \A n \in 1..MaxTimesteps, sizes \in ScenarioSizes,
                 state \in PyStates, prior \in PyParameterStates :
                 \A s \in 1..Product(sizes) :
                    PyParameter_compute(parameters[1], Timestepper_timesteps(n)[n],
                                        ScenarioGroupCollection_scenario_indices(sizes)[s],
                                        state, prior) = last.ret

C20_Witness ==
    /\ last.op = "PyParameter_compute"
    /\ parameters[1].object.compute = PyReturns("str", None)
    /\ last.ret.tag = "Err"
    /\ last.ret.name = "TypeError: must be real number, not str"
    /\ timesteps[1].index = 1
    /\ scenario_indices[1].index = 1
    /\ pstate = <<1>>

\* The save calls of the current run for the pair (t, s), and whether a call
\* for a later pair was made
SavesOf(t, s) == SelectSeq(trace, LAMBDA e : e.fn = "save" /\ e.t = t /\ e.s = s)
LaterCalled(t, s) ==
    \E j \in 1..Len(trace) :
        /\ trace[j].fn # "setup"
        /\ (trace[j].t > t \/ (trace[j].t = t /\ trace[j].s > s))

\* C21: for every (timestep, scenario) pair the recorders are saved in the
\* order they were added, each once and after the pair's solve: the i-th save
\* call of a pair is for the recorder of index i - 1, and a pair the run went
\* past, or a run that returned Ok, has one save call per recorder; when the
\* save of recorder j fails no call is made after it (the recorders after j
\* are not saved for that pair) and run returns that error.
C21_RecordersInDeclarationOrder ==
    /\ \A ti \in 1..Len(timesteps), si \in 1..Len(scenario_indices) :
          LET t == timesteps[ti].index
              s == scenario_indices[si].index
              saves == SavesOf(t, s)
          IN  /\ Len(saves) <= Len(recorders)
              /\ \A i \in 1..Len(saves) : saves[i].k = i - 1
              /\ \A i \in 1..Len(saves) : saves[i].ret.tag = "Err" => i = Len(saves)
              /\ (LaterCalled(t, s) \/ (pc = "idle" /\ run_ret.tag = "Ok"))
                 => (/\ Len(saves) = Len(recorders)
                     /\ \A i \in 1..Len(saves) : saves[i].ret.tag = "Ok")
    /\ \A j \in 1..Len(trace) :
          trace[j].fn = "save"
          => /\ \E i \in 1..(j - 1) :
                   /\ trace[i].fn = "solve"
                   /\ trace[i].t = trace[j].t
                   /\ trace[i].s = trace[j].s
                   /\ trace[i].ret.tag = "Ok"
             /\ trace[j].ret.tag = "Err"
                => (/\ j = Len(trace)
                    /\ pc = "idle"
                    /\ run_ret = trace[j].ret
                    /\ run_ret.name = recorders[trace[j].k + 1].name)

C21_Witness ==
    /\ pc = "idle"
    /\ Len(recorders) = 2
    /\ Len(scenario_indices) = 2
    /\ run_ret = ErrNamed("AssertionFailed", "s", 1)
    /\ Len(SavesOf(0, 0)) = 2
    /\ Len(SavesOf(0, 1)) = 2
    /\ SavesOf(0, 1)[1].ret.tag = "Ok"

\* The names of a registry, in its order
Names(seq) == [i \in 1..Len(seq) |-> seq[i].name]

\* C22: no step of run or step changes the structure of the model: the node
\* list (roles, names, edge sets, constraints, costs, initial volumes), the
\* edge list and the parameter list stay as they are, and the recorders keep
\* their number and order; when run returns, Ok or an error, the recorders are
\* the ones, in the order, the model had when run was called.
C22_RunLeavesStructure ==
    [][(pc # "idle" \/ pc' # "idle")
       => (/\ nodes' = nodes
           /\ edges' = edges
           /\ parameters' = parameters
           /\ Names(recorders') = Names(recorders)
           /\ pc' = "idle" => Names(recorders') = Names(recorders_at_start'))]_vars

C22_Witness ==
    /\ pc = "idle"
    /\ run_ret = Err("SolverInfeasible")
    /\ Len(nodes) = 2
    /\ Len(edges) = 1
    /\ Len(parameters) = 2
    /\ Names(recorders) = <<"r", "s">>
    /\ \E j \in 1..Len(trace) : trace[j].fn = "save" /\ trace[j].k = 1

\* A registry that grew by at most one entry, at its end
Grown(before, after) ==
    /\ Len(after) \in {Len(before), Len(before) + 1}
    /\ SubSeq(after, 1, Len(before)) = before

\* Every entry of a registry is found under its name at its position, and a
\* name no entry has is not found
FoundAtPosition ==
    /\ \A i \in 1..Len(nodes) :
          nodes[i].index = i - 1 /\ get_node_index(nodes, nodes[i].name) = Ok(i - 1)
    /\ \A i \in 1..Len(parameters) : get_parameter_index(parameters, parameters[i].name) = Ok(i - 1)
    /\ \A i \in 1..Len(recorders) : get_recorder_index(recorders, recorders[i].name) = Ok(i - 1)
    /\ \A name \in NodeNames :
          (\A i \in 1..Len(nodes) : nodes[i].name # name)
          => get_node_index(nodes, name) = Err("NodeIndexNotFound")
    /\ \A name \in ParameterNames :
          (\A i \in 1..Len(parameters) : parameters[i].name # name)
          => get_parameter_index(parameters, name) = Err("ParameterIndexNotFound")
    /\ \A name \in RecorderNames :
          (\A i \in 1..Len(recorders) : recorders[i].name # name)
          => get_recorder_index(recorders, name) = Err("RecorderIndexNotFound")

StepReturned == InStep /\ pc \in {"idle", "timestep"}
StepGiven == trace[1].k
StepOutOfRange == \E i \in 1..Len(scenario_indices) : scenario_indices[i].index >= StepGiven

\* In a run the vector of current states has one state per scenario, the
\* scenario at position i has index i, and between two timesteps position i
\* holds the initial state, then the last state solved for, of scenario i; no
\* run returns ScenarioStateNotFound
RunStatesByIndex ==
    /\ (InRun /\ pc # "idle")
       => (/\ Len(current_states) = Len(scenario_indices)
           /\ \A i \in 1..Len(scenario_indices) : scenario_indices[i].index = i - 1)
    /\ (InRun /\ pc = "timestep")
       => \A i \in 1..Len(scenario_indices) :
             IF ts_pos = 0
             THEN current_states[i] = get_initial_state(nodes, edges, scenario_indices)[i]
             ELSE /\ solved[scenario_indices[i].index + 1].t = timesteps[ts_pos].index
                  /\ current_states[i] = solved[scenario_indices[i].index + 1].state
    /\ (InRun \/ (pc = "idle" /\ Len(trace) = 0)) => run_ret.err # "ScenarioStateNotFound"

\* C24 as stated: in a run position i of the current states is the state of
\* the scenario of index i and no ScenarioStateNotFound is returned; step
\* returns ScenarioStateNotFound exactly when the index of some scenario is >=
\* the length of the vector of states it is given, and then returns no vector.
C24_NotFoundExactlyWhenOutOfRange ==
    /\ RunStatesByIndex
    /\ StepReturned
       => (/\ (pc = "idle" /\ run_ret = Err("ScenarioStateNotFound")) <=> StepOutOfRange
           /\ run_ret.err = "ScenarioStateNotFound" => current_states = <<>>)

\* C24 amended: the same for a run; step returns ScenarioStateNotFound exactly
\* when the index of some scenario is >= the length of the vector of states it
\* is given and no parameter, solver or recorder called for the scenarios
\* before that one failed (step returns the first failure); with such an index
\* step returns an error whatever happens, and no vector of states.
C24_NotFoundWhenReached ==
    /\ RunStatesByIndex
    /\ StepReturned
       => (/\ (pc = "idle" /\ run_ret = Err("ScenarioStateNotFound"))
              <=> (/\ StepOutOfRange
                   /\ \A j \in 2..Len(trace) : trace[j].ret.tag = "Ok")
           /\ StepOutOfRange => (pc = "idle" /\ run_ret.tag = "Err" /\ current_states = <<>>)
           /\ run_ret.err = "ScenarioStateNotFound" => current_states = <<>>)

C24_Witness ==
    /\ StepReturned
    /\ pc = "idle"
    /\ run_ret = Err("ScenarioStateNotFound")
    /\ Len(scenario_indices) = 2
    /\ StepGiven = 1
    /\ \E j \in 2..Len(trace) : trace[j].fn = "save" /\ trace[j].s = 0

\* The parameter indices a node is bound to
BoundIndices(node) ==
    {node.cost, node.min_flow, node.max_flow, node.min_volume, node.max_volume} \ {None}

\* C25: set_node_constraint and set_node_cost check their arguments before
\* they touch the node. A parameter index >= the number of registered
\* parameters is answered with ParameterIndexNotFound, whether the node index
\* is valid or not, and the nodes stay as they were; no parameter (None) is
\* never answered with ParameterIndexNotFound; with no parameter or a
\* registered one, a node index out of range is answered with
\* NodeIndexNotFound and the nodes stay as they were. Every parameter index a
\* node is bound to is the index of a registered parameter.
C25_ArgumentsValidatedFirst ==
    [][/\ last'.op \in {"set_node_constraint", "set_node_cost"}
          => (/\ (last'.b # None /\ last'.b >= Len(parameters))
                 => (last'.ret = Err("ParameterIndexNotFound") /\ nodes' = nodes)
              /\ last'.b = None => last'.ret.err # "ParameterIndexNotFound"
              /\ ((last'.b = None \/ last'.b < Len(parameters)) /\ last'.a >= Len(nodes))
                 => (last'.ret = Err("NodeIndexNotFound") /\ nodes' = nodes)
              /\ last'.ret.tag # "Panic")
       /\ \A n \in 1..Len(nodes') : BoundIndices(nodes'[n]) \subseteq 0..(Len(parameters') - 1)]_vars

C25_Witness ==
    /\ last.op = "set_node_cost"
    /\ last.a >= Len(nodes)
    /\ last.b # None
    /\ last.b >= Len(parameters)
    /\ last.ret = Err("ParameterIndexNotFound")
    /\ Len(parameters) = 1
    /\ \E n \in 1..Len(nodes) : BoundIndices(nodes[n]) = {0} /\ nodes[n].max_flow = 0

====
